---------------------------- MODULE Spec2Model ----------------------------
(***************************************************************************)
(* A model of br_asm.py: the two-pass assembler class Assembler (its       *)
(* symbol table `labels`, its `listing`, the address counter and the       *)
(* per-line visitor installed as `self.line`), the module-level instance   *)
(* `asm`, and the GUI callback assemble().                                 *)
(*                                                                         *)
(* Text is modelled as sequences of one-character strings, so that the     *)
(* slicing and the int() conversions of the source are computed and not    *)
(* assumed.  A parse tree is the sequence of its `line` sub-trees; each    *)
(* line is the triple of children [LABELC] [stmt] [COMMENT] that the       *)
(* grammar produces, with None for an absent child.                        *)
(***************************************************************************)
EXTENDS Integers, Sequences, FiniteSets, TLC

VARIABLES
    labels,     \* self.labels : dict[str, int]
    listing,    \* self.listing, as its sequence of text lines
    address,    \* self.address
    line,       \* self.line : "none", "line_pass1" or "line_pass2"
    tree,       \* the tree handed to Assembler.assemble
    idx,        \* position of self.visit(tree): the next child to visit
    pc,         \* "idle", "pass1", "header" or "pass2"
    status,     \* outcome of the last assemble: "none", "ok" or "assert"
    errors,     \* what Assembler.error wrote to stderr during this assemble
    base,       \* number of listing lines present when assemble was entered
    cleared,    \* clear() has been called since assemble was last entered
    fresh,      \* this assemble was entered right after a clear()
    prev        \* what the preceding assemble produced, when it too was
                \* entered after a clear() with the same tree; else <<>>

vars == <<labels, listing, address, line, tree, idx, pc, status, errors,
          base, cleared, fresh, prev>>

-----------------------------------------------------------------------------
(* Bounds of the model. *)

\* longest program (in lines) offered to the assembler in Spec
MaxLines == 3
\* most rows a listing may already hold for a further assemble to be started
MaxRows == 2
\* most padding statements before the label in the long programs of SpecLong
MaxPad == 101

-----------------------------------------------------------------------------
(* Tokens. *)

None == [type |-> "None", value |-> <<>>]

Tok(t, v) == [type |-> t, value |-> v]

\* Token('', '') of line_pass2
EmptyToken == Tok("", <<>>)

DigitVal ==
    [c \in {"0", "1", "2", "3", "4", "5", "6", "7", "8", "9"} |->
        CASE c = "0" -> 0 [] c = "1" -> 1 [] c = "2" -> 2 [] c = "3" -> 3
          [] c = "4" -> 4 [] c = "5" -> 5 [] c = "6" -> 6 [] c = "7" -> 7
          [] c = "8" -> 8 [] c = "9" -> 9]

\* int(s) for a string of decimal digits
RECURSIVE int(_)
int(s) ==
    IF Len(s) = 0 THEN 0
    ELSE 10 * int(SubSeq(s, 1, Len(s) - 1)) + DigitVal[s[Len(s)]]

\* s[1:]
Tail1(s) == SubSeq(s, 2, Len(s))

\* s[:-1]
DropLast(s) == SubSeq(s, 1, Len(s) - 1)

\* dict.get: <<>> for None, <<v>> for a value
Get(d, k) == IF k \in DOMAIN d THEN <<d[k]>> ELSE <<>>

\* d[k] = v
Put(d, k, v) == [x \in DOMAIN d \cup {k} |-> IF x = k THEN v ELSE d[x]]

EmptyDict == [x \in {} |-> 0]

-----------------------------------------------------------------------------
(* Program constants. *)

\* the largest literal imm and target let through
LiteralMax == 99

Header == << <<";", " ", "AEGIS BrickRigs CPU 0.6 Assembler">>, <<";">> >>

\* Assembler.INSTRUCTIONS: opcode base and encoding form per statement tag
INSTRUCTIONS ==
    [ add   |-> [base |-> 0,    form |-> "word_3addr"],
      ld    |-> [base |-> 0,    form |-> "word_2addr"],
      neg   |-> [base |-> 1000, form |-> "word_2addr"],
      sub   |-> [base |-> 2000, form |-> "word_3addr"],
      mul   |-> [base |-> 3000, form |-> "word_3addr"],
      div   |-> [base |-> 4000, form |-> "word_3addr"],
      mod   |-> [base |-> 5000, form |-> "word_3addr"],
      round |-> [base |-> 6000, form |-> "word_2addr"],
      ldi   |-> [base |-> 7000, form |-> "word_dstimm"],
      jp    |-> [base |-> 7900, form |-> "word_jump"],
      floor |-> [base |-> 8000, form |-> "word_2addr"] ]

-----------------------------------------------------------------------------
(* The encoder: Assembler.reg, imm, target and the word_* forms.  A call   *)
(* that may report an error returns the value together with the messages   *)
(* it handed to Assembler.error; `at` is the position of the line visited. *)

\* Assembler.error: one message on stderr, naming the token
error(at, token, msg) == [at |-> at, token |-> token.value, msg |-> msg]

\* re.match("pc", value, re.IGNORECASE)
MatchPC(v) == Len(v) >= 2 /\ v[1] \in {"p", "P"} /\ v[2] \in {"c", "C"}

reg(token) ==
    IF MatchPC(token.value) THEN 9 ELSE int(<<token.value[2]>>)

\* Clamp with the upper limit off by one
Clamp_off_by_one(at, token, val) ==
    IF val < 0
    THEN [value |-> 0,
          errors |-> <<error(at, token, <<"literal", val, "must be non-negative">>)>>]
    ELSE IF val > LiteralMax + 1
    THEN [value |-> LiteralMax + 1,
          errors |-> <<error(at, token, <<"literal", val, "must be less than 100">>)>>]
    ELSE [value |-> val, errors |-> <<>>]

Clamp(at, token, val) ==
    IF val < 0
    THEN [value |-> 0,
          errors |-> <<error(at, token, <<"literal", val, "must be non-negative">>)>>]
    ELSE IF val > LiteralMax
    THEN [value |-> LiteralMax,
          errors |-> <<error(at, token, <<"literal", val, "must be less than 100">>)>>]
    ELSE [value |-> val, errors |-> <<>>]

\* self.labels.get(token.value), defaulting to 0 with an error
Lookup(lbls, at, token) ==
    LET t == Get(lbls, token.value)
    IN  IF t = <<>>
        THEN [value |-> 0,
              errors |-> <<error(at, token, <<"unknown label", token.value>>)>>]
        ELSE [value |-> t[1], errors |-> <<>>]

imm(lbls, at, token) ==
    CASE token.type = "IMMINT"   -> Clamp(at, token, int(Tail1(token.value)))
      [] token.type = "IMMLABEL" -> Lookup(lbls, at, token)

target(lbls, at, token) ==
    CASE token.type = "INT"   -> Clamp(at, token, int(token.value))
      [] token.type = "LABEL" -> Lookup(lbls, at, token)

\* word_3addr with the two source digits exchanged
word_3addr_swapped(ops) == reg(ops[1]) * 100 + reg(ops[3]) * 10 + reg(ops[2])

word_3addr(ops) == reg(ops[1]) * 100 + reg(ops[2]) * 10 + reg(ops[3])

word_2addr(ops) == reg(ops[1]) * 100 + reg(ops[2]) * 10

word_dstimm(lbls, at, ops) ==
    LET r == imm(lbls, at, ops[2])
    IN  [value |-> reg(ops[1]) * 100 + r.value, errors |-> r.errors]

word_jump(lbls, at, ops) == target(lbls, at, ops[1])

\* fmt[0] + fmt[1](self, ops)
Word(lbls, at, stmt) ==
    LET fmt == INSTRUCTIONS[stmt.data]
        r == CASE fmt.form = "word_3addr"  -> [value |-> word_3addr(stmt.children), errors |-> <<>>]
               [] fmt.form = "word_2addr"  -> [value |-> word_2addr(stmt.children), errors |-> <<>>]
               [] fmt.form = "word_dstimm" -> word_dstimm(lbls, at, stmt.children)
               [] fmt.form = "word_jump"   -> word_jump(lbls, at, stmt.children)
    IN  [value |-> fmt.base + r.value, errors |-> r.errors]

-----------------------------------------------------------------------------
(* The two line visitors. *)

\* children[0].value[:-1] if children[0] else None / ''
LabelOf(ln) == IF ln.label = None THEN <<>> ELSE DropLast(ln.label.value)

\* line_pass1 counting every line as a statement
line_pass1_every_line(lbls, addr, ln) ==
    LET label == LabelOf(ln)
    IN  [labels  |-> IF label # <<>> THEN Put(lbls, label, addr) ELSE lbls,
         address |-> addr + 1]

line_pass1(lbls, addr, ln) ==
    LET label == LabelOf(ln)
    IN  [labels  |-> IF label # <<>> THEN Put(lbls, label, addr) ELSE lbls,
         address |-> IF ln.stmt # None THEN addr + 1 ELSE addr]

\* one formatted row: the values interpolated into the f-string
Row(addr, word, label, instr, textops, comment) ==
    [address |-> addr, word |-> word, label |-> label, instr |-> instr,
     textops |-> textops, comment |-> comment]

line_pass2(lbls, addr, at, ln) ==
    LET label   == LabelOf(ln)
        stmt    == ln.stmt
        comment == IF ln.comment # None THEN ln.comment.value ELSE <<>>
        w       == IF stmt # None THEN Word(lbls, at, stmt)
                   ELSE [value |-> 0, errors |-> <<>>]
        word    == IF stmt # None THEN <<w.value>> ELSE <<>>
        instr   == IF stmt # None THEN stmt.data ELSE ""
        ops     == IF stmt # None THEN stmt.children ELSE <<EmptyToken>>
        textops == [i \in 1..Len(ops) |-> ops[i].value]
        emit    == label # <<>> \/ stmt # None \/ comment # <<>>
    IN  [rows     |-> IF emit
                      THEN <<Row(addr, word, label, instr, textops, comment)>>
                      ELSE <<>>,
         errors   |-> w.errors,
         asserted |-> label # <<>> => (lbls[label] = addr),
         address  |-> IF stmt # None THEN addr + 1 ELSE addr]

-----------------------------------------------------------------------------
(* Parse trees: what parser.parse can hand to the assembler. *)

Line(label, stmt, comment) == [label |-> label, stmt |-> stmt, comment |-> comment]

Stmt(data, children) == [type |-> "Tree", data |-> data, children |-> children]

LABELC(name) == Tok("LABELC", name \o <<":">>)
IMMINT(digits) == Tok("IMMINT", <<"#">> \o digits)
IMMLABEL(name) == Tok("IMMLABEL", <<"#">> \o name)
LABEL(name) == Tok("LABEL", name)
INT(digits) == Tok("INT", digits)
REG(v) == Tok("REG", v)
COMMENT == Tok("COMMENT", <<";", " ", "c">>)

\* the lines the programs of Spec are made of
SrcLines ==
    { Line(LABELC(<<"a">>), Stmt("ldi", <<REG(<<"r", "1">>), IMMINT(<<"1", "5", "0">>)>>), COMMENT),
      Line(None, Stmt("jp", <<LABEL(<<"a">>)>>), None),
      Line(LABELC(<<"a">>), None, None),
      Line(None, None, None),
      Line(None, None, COMMENT) }

Programs == UNION {[1..n -> SrcLines] : n \in 0..MaxLines}

\* the lines the programs of SpecRun are made of
RunLines ==
    { Line(LABELC(<<"a">>), Stmt("ldi", <<REG(<<"r", "1">>), IMMINT(<<"1", "5", "0">>)>>), COMMENT),
      Line(None, Stmt("jp", <<LABEL(<<"a">>)>>), None),
      Line(LABELC(<<"b">>), None, None),
      Line(None, Stmt("ldi", <<REG(<<"r", "1">>), IMMLABEL(<<"b">>)>>), None),
      Line(None, Stmt("jp", <<INT(<<"1", "5", "0">>)>>), None),
      Line(LABELC(<<"b">>), Stmt("ldi", <<REG(<<"R", "3">>), IMMINT(<<"1", "0">>)>>), None),
      Line(None, None, None),
      Line(None, None, COMMENT) }

\* defaulttext
DefaultProgram ==
    << Line(None, None, None),
       Line(LABELC(<<"l", "o", "o", "p">>),
            Stmt("ldi", <<REG(<<"r", "3">>), IMMINT(<<"1", "0">>)>>), COMMENT),
       Line(None, Stmt("div", <<REG(<<"r", "1">>), REG(<<"r", "2">>), REG(<<"r", "3">>)>>), COMMENT),
       Line(None, Stmt("mod", <<REG(<<"r", "2">>), REG(<<"r", "2">>), REG(<<"r", "3">>)>>), COMMENT),
       Line(None, Stmt("floor", <<REG(<<"r", "1">>), REG(<<"r", "1">>)>>), COMMENT),
       Line(None, Stmt("jp", <<LABEL(<<"l", "o", "o", "p">>)>>), None) >>

RunPrograms == UNION {[1..n -> RunLines] : n \in 0..MaxLines} \cup {DefaultProgram}

\* the register tokens: R0..R9 and PC, with some lower-case spellings
RegDigits == {"0", "1", "2", "3", "4", "5", "6", "7", "8", "9"}
RegTokens ==
    {REG(<<"R", d>>) : d \in RegDigits}
        \cup {REG(<<"r", "7">>), REG(<<"P", "C">>), REG(<<"p", "c">>), REG(<<"P", "c">>)}

\* every register-only statement, as a one-line program
EncPrograms ==
    {<<Line(None, Stmt(m, <<x, y, z>>), None)>> :
        m \in {"add", "sub", "mul", "div", "mod"}, x \in RegTokens, y \in RegTokens, z \in RegTokens}
    \cup
    {<<Line(None, Stmt(m, <<x, y>>), None)>> :
        m \in {"ld", "neg", "round", "floor"}, x \in RegTokens, y \in RegTokens}

\* n statements, then a label on a jump to itself
Padded(n) ==
    [i \in 1..(n + 1) |->
        IF i <= n
        THEN Line(None, Stmt("add", <<REG(<<"R", "0">>), REG(<<"R", "0">>), REG(<<"R", "0">>)>>), None)
        ELSE Line(LABELC(<<"a">>), Stmt("jp", <<LABEL(<<"a">>)>>), None)]

LongPrograms == {Padded(n) : n \in (MaxPad - 2)..MaxPad}

HasStmt(ln) == ln.stmt # None
NonBlank(ln) == ln.label # None \/ ln.stmt # None \/ ln.comment # None

\* how many of the first n lines of t carry a statement / are not blank
StmtCount(t, n) == Cardinality({i \in 1..n : HasStmt(t[i])})
NonBlankCount(t, n) == Cardinality({i \in 1..n : NonBlank(t[i])})

-----------------------------------------------------------------------------
(* The state machine. *)

\* asm = Assembler(): __init__ sets labels and calls clear()
Init ==
    /\ labels = EmptyDict
    /\ listing = Header
    /\ address = 0
    /\ line = "none"
    /\ tree = <<>>
    /\ idx = 1
    /\ pc = "idle"
    /\ status = "none"
    /\ errors = <<>>
    /\ base = Len(Header)
    /\ cleared = TRUE
    /\ fresh = FALSE
    /\ prev = <<>>

\* clear leaving the listing as it is
clear_keeps(lst) == lst

\* Assembler.clear: the new value of self.listing
clear(lst) == Header

\* what the run that just ended produced, kept while the listing is cleared
Stash ==
    IF cleared THEN prev
    ELSE IF fresh /\ status # "none"
         THEN <<[listing |-> listing, errors |-> errors, status |-> status]>>
         ELSE <<>>

\* asm.clear() called on its own
Assembler_clear ==
    /\ pc = "idle"
    /\ listing' = clear(listing)
    /\ cleared' = TRUE
    /\ prev' = Stash
    /\ UNCHANGED <<labels, address, line, tree, idx, pc, status, errors, base, fresh>>

\* entry of Assembler.assemble(t), on the listing lst: pass 1 is set up
Enter(t, lst, wasCleared, stash) ==
    /\ listing' = lst
    /\ address' = 0
    /\ line' = "line_pass1"
    /\ tree' = t
    /\ idx' = 1
    /\ pc' = "pass1"
    /\ status' = "none"
    /\ errors' = <<>>
    /\ base' = Len(lst)
    /\ fresh' = wasCleared
    /\ cleared' = FALSE
    /\ prev' = IF wasCleared /\ t = tree THEN stash ELSE <<>>
    /\ UNCHANGED labels

\* asm.assemble(t) called on its own, without a clear() by the caller
Assembler_assemble ==
    /\ pc = "idle"
    /\ \E t \in Programs :
          /\ Len(listing) - Len(Header) + Len(t) <= MaxRows
          /\ Enter(t, listing, cleared, prev)

\* the GUI callback assemble(): parse, asm.clear(), asm.assemble(thetree)
Callback(P) ==
    /\ pc = "idle"
    /\ \E t \in P : Enter(t, clear(listing), TRUE, Stash)

assemble == Callback(Programs)

\* self.visit(tree) with self.line = line_pass1: one child
visit_pass1 ==
    /\ pc = "pass1"
    /\ idx <= Len(tree)
    /\ LET r == line_pass1(labels, address, tree[idx])
       IN  /\ labels' = r.labels
           /\ address' = r.address
    /\ idx' = idx + 1
    /\ UNCHANGED <<listing, line, tree, pc, status, errors, base, cleared, fresh, prev>>

\* between the passes: the header is printed, the counter reset, the visitor swapped
pass2_begin ==
    /\ pc = "pass1"
    /\ idx > Len(tree)
    /\ address' = 0
    /\ line' = "line_pass2"
    /\ idx' = 1
    /\ pc' = "pass2"
    /\ UNCHANGED <<labels, listing, tree, status, errors, base, cleared, fresh, prev>>

\* self.visit(tree) with self.line = line_pass2: one child; a failed assert
\* leaves assemble with the row already appended
visit_pass2 ==
    /\ pc = "pass2"
    /\ idx <= Len(tree)
    /\ LET r == line_pass2(labels, address, idx, tree[idx])
       IN  /\ listing' = listing \o r.rows
           /\ errors' = errors \o r.errors
           /\ IF r.asserted
              THEN /\ address' = r.address
                   /\ idx' = idx + 1
                   /\ UNCHANGED <<pc, status>>
              ELSE /\ pc' = "idle"
                   /\ status' = "assert"
                   /\ UNCHANGED <<address, idx>>
    /\ UNCHANGED <<labels, line, tree, base, cleared, fresh, prev>>

\* Assembler.assemble returns
return ==
    /\ pc = "pass2"
    /\ idx > Len(tree)
    /\ pc' = "idle"
    /\ status' = "ok"
    /\ UNCHANGED <<labels, listing, address, line, tree, idx, errors, base, cleared, fresh, prev>>

\* the first press of the button on a new instance, on a program of P
FirstCallback(P) ==
    /\ line = "none"
    /\ Callback(P)

assemble_run == FirstCallback(RunPrograms)
assemble_enc == FirstCallback(EncPrograms)
assemble_long == FirstCallback(LongPrograms)

Next ==
    \/ Assembler_clear
    \/ Assembler_assemble
    \/ assemble
    \/ visit_pass1
    \/ pass2_begin
    \/ visit_pass2
    \/ return

Spec == Init /\ [][Next]_vars

\* one assemble request on a new instance
NextRun == assemble_run \/ visit_pass1 \/ pass2_begin \/ visit_pass2 \/ return
SpecRun == Init /\ [][NextRun]_vars

\* one register-only statement assembled on a new instance
NextEnc == assemble_enc \/ visit_pass1 \/ pass2_begin \/ visit_pass2 \/ return
SpecEnc == Init /\ [][NextEnc]_vars

\* one long program assembled on a new instance
NextLong == assemble_long \/ visit_pass1 \/ pass2_begin \/ visit_pass2 \/ return
SpecLong == Init /\ [][NextLong]_vars

-----------------------------------------------------------------------------
(* Vocabulary of the properties. *)

\* the labels a program defines
DefinedIn(t) == {LabelOf(t[i]) : i \in {j \in 1..Len(t) : t[j].label # None}}

\* the lines of t that define the label n
Definers(t, n) == {j \in 1..Len(t) : t[j].label # None /\ LabelOf(t[j]) = n}

\* where the listing holds the row of line i of this assemble
RowIdx(i) == base + NonBlankCount(tree, i)

\* line i has been visited in pass 2 of this assemble and has its row
Emitted(i) ==
    /\ i \in 1..Len(tree)
    /\ NonBlank(tree[i])
    /\ line = "line_pass2"
    /\ RowIdx(i) <= Len(listing)

EmittedStmts == {i \in 1..Len(tree) : Emitted(i) /\ HasStmt(tree[i])}

\* the word printed for statement line i
WordOf(i) == listing[RowIdx(i)].word[1]

\* how many messages line i drew
ErrorsAt(i) == Cardinality({k \in 1..Len(errors) : errors[k].at = i})

\* the operand of line i that refers to a label: <<name>>, or <<>> if none
LabelRef(i) ==
    LET st == tree[i].stmt
    IN  IF st.data = "jp" /\ st.children[1].type = "LABEL"
        THEN <<st.children[1].value>>
        ELSE IF st.data = "ldi" /\ st.children[2].type = "IMMLABEL"
        THEN <<Tail1(st.children[2].value)>>
        ELSE <<>>

\* the literal operand of line i: <<value>>, or <<>> if none
LiteralOf(i) ==
    LET st == tree[i].stmt
    IN  IF st.data = "jp" /\ st.children[1].type = "INT"
        THEN <<int(st.children[1].value)>>
        ELSE IF st.data = "ldi" /\ st.children[2].type = "IMMINT"
        THEN <<int(Tail1(st.children[2].value))>>
        ELSE <<>>

\* the part of the word that comes before the immediate or target
Prefix(i) ==
    LET st == tree[i].stmt
    IN  IF st.data = "ldi" THEN 7000 + 100 * reg(st.children[1]) ELSE 7900

RunEnded == pc = "idle" /\ status # "none"

-----------------------------------------------------------------------------
(* The claims. *)

\* C1: in pass 2 the label table holds exactly the labels the program of
\* this request defines, and a jump to a label that only an earlier
\* program defined encodes 7900 and draws a message.
C1_SymbolTableRebuilt ==
    /\ pc = "pass2" => DOMAIN labels = DefinedIn(tree)
    /\ \A i \in EmittedStmts :
          (LabelRef(i) # <<>> /\ LabelRef(i)[1] \notin DefinedIn(tree))
              => (WordOf(i) = Prefix(i) /\ ErrorsAt(i) = 1)

\* C2: the assert of line_pass2 never fails, whatever program is assembled.
C2_AssertNeverFails == status # "assert"

\* C3: a jump or an immediate that names a label defined exactly once
\* encodes that label's address, the number of statements before its line,
\* and draws no message.
C3_ReferencesResolve ==
    \A i \in EmittedStmts :
        (LabelRef(i) # <<>> /\ Cardinality(Definers(tree, LabelRef(i)[1])) = 1)
            => LET j == CHOOSE d \in Definers(tree, LabelRef(i)[1]) : TRUE
               IN  /\ WordOf(i) = Prefix(i) + StmtCount(tree, j - 1)
                   /\ ErrorsAt(i) = 0

\* C4: every address in the symbol table is in 0..99, every immediate or
\* jump target is in 0..99 and every operand encoding is in 0..999.
C4_OperandsInRange ==
    /\ \A n \in DOMAIN labels : labels[n] \in 0..99
    /\ \A i \in EmittedStmts :
          /\ WordOf(i) - INSTRUCTIONS[tree[i].stmt.data].base \in 0..999
          /\ tree[i].stmt.data \in {"jp", "ldi"} => WordOf(i) - Prefix(i) \in 0..99

\* C5: a literal above 99 and a reference to a label the symbol table
\* lacks each draw exactly one message and encode 99 and 0; any other
\* statement draws none; and every non-blank line gets its row.
C5_ErrorsRecoverable ==
    /\ \A i \in EmittedStmts :
          LET over    == LiteralOf(i) # <<>> /\ LiteralOf(i)[1] > 99
              missing == LabelRef(i) # <<>> /\ LabelRef(i)[1] \notin DOMAIN labels
          IN  /\ ErrorsAt(i) = IF over \/ missing THEN 1 ELSE 0
              /\ over => WordOf(i) = Prefix(i) + 99
              /\ missing => WordOf(i) = Prefix(i)
    /\ RunEnded => Len(listing) = base + NonBlankCount(tree, Len(tree))

\* the two statements C6 is about
IsLdR1Imm150(st) ==
    /\ st # None
    /\ st.data = "ldi"
    /\ st.children = <<REG(<<"r", "1">>), IMMINT(<<"1", "5", "0">>)>>

IsLdR1ImmUndefined(t, st) ==
    /\ st # None
    /\ st.data = "ldi"
    /\ st.children[1] = REG(<<"r", "1">>)
    /\ st.children[2].type = "IMMLABEL"
    /\ Tail1(st.children[2].value) \notin DefinedIn(t)

\* C6 as stated: LD r1,#150 assembles to the word 199 and LD r1,#nosuch,
\* with nosuch undefined, to the word 100.
C6_WordsAsStated ==
    \A i \in EmittedStmts :
        /\ IsLdR1Imm150(tree[i].stmt) => WordOf(i) = 199
        /\ IsLdR1ImmUndefined(tree, tree[i].stmt) => WordOf(i) = 100

\* C6 amended: LD r1,#150 assembles to the word 7199 (operand encoding 199
\* on the base 7000) and LD r1,#nosuch to 7100, each with one message.
C6_WordsWithBase ==
    \A i \in EmittedStmts :
        /\ IsLdR1Imm150(tree[i].stmt) => (WordOf(i) = 7199 /\ ErrorsAt(i) = 1)
        /\ IsLdR1ImmUndefined(tree, tree[i].stmt) => (WordOf(i) = 7100 /\ ErrorsAt(i) = 1)

C6_Witness ==
    /\ RunEnded
    /\ \E i \in EmittedStmts : IsLdR1Imm150(tree[i].stmt)
    /\ \E i \in EmittedStmts : IsLdR1ImmUndefined(tree, tree[i].stmt)

\* C7: a program assembled twice in a row, each time after a clear(), gives
\* the same listing, the same messages and the same outcome both times.
C7_Idempotent ==
    (RunEnded /\ ~cleared /\ prev # <<>>)
        => prev[1] = [listing |-> listing, errors |-> errors, status |-> status]

C7_Witness ==
    /\ RunEnded /\ ~cleared /\ prev # <<>>
    /\ errors # <<>>
    /\ Len(listing) > Len(Header) + 1
    /\ \E i \in EmittedStmts : LabelRef(i) # <<>>

\* C8: once an assemble has been started the listing is the header followed
\* by rows of the latest program only.
C8_NoStaleRows ==
    line # "none" =>
        /\ SubSeq(listing, 1, Len(Header)) = Header
        /\ Len(listing) <= Len(Header) + NonBlankCount(tree, Len(tree))

\* the digit C9 gives a register: its numeral, or 9 for PC
C9Digit(token) ==
    IF token.value[1] \in {"R", "r"} THEN DigitVal[token.value[2]] ELSE 9

C9Base(m) ==
    CASE m = "add" -> 0 [] m = "sub" -> 2000 [] m = "mul" -> 3000
      [] m = "div" -> 4000 [] m = "mod" -> 5000 [] m = "ld" -> 0
      [] m = "neg" -> 1000 [] m = "round" -> 6000 [] m = "floor" -> 8000

\* C9: a register-only statement encodes to base + dst*100 + src1*10 + src2
\* (three registers) or base + dst*100 + src1*10 (two), every digit in 0..9.
C9_RegisterWords ==
    \A i \in EmittedStmts :
        LET st == tree[i].stmt
            o  == st.children
        IN  /\ st.data \in {"add", "sub", "mul", "div", "mod"} =>
                  WordOf(i) - C9Base(st.data)
                      = C9Digit(o[1]) * 100 + C9Digit(o[2]) * 10 + C9Digit(o[3])
            /\ st.data \in {"ld", "neg", "round", "floor"} =>
                  WordOf(i) - C9Base(st.data) = C9Digit(o[1]) * 100 + C9Digit(o[2]) * 10
            /\ st.data \notin {"ldi", "jp"} =>
                  \A k \in 1..Len(o) : C9Digit(o[k]) \in 0..9 /\ reg(o[k]) = C9Digit(o[k])

C9_Witness ==
    /\ RunEnded
    /\ \E i \in EmittedStmts :
          /\ tree[i].stmt.data = "mod"
          /\ tree[i].stmt.children = <<REG(<<"P", "C">>), REG(<<"r", "7">>), REG(<<"R", "4">>)>>
          /\ WordOf(i) = 5974

\* the rows of this assemble that carry a statement, up to listing line k
StmtRows(k) == {m \in (base + 1)..k : listing[m].instr # ""}

\* C10: in each pass the address counter is the number of statement lines
\* already visited (0 at the start, one more after each statement, the same
\* after any other line), and the statement rows carry 0, 1, 2, ...
C10_AddressCounter ==
    /\ line # "none" => address = StmtCount(tree, idx - 1)
    /\ line = "line_pass2" =>
          \A k \in (base + 1)..Len(listing) :
              listing[k].instr # "" => listing[k].address = Cardinality(StmtRows(k - 1))

C10_Witness ==
    /\ pc = "pass2"
    /\ idx = Len(tree) + 1
    /\ Len(tree) = 3
    /\ address = 2
    /\ \E i \in 1..Len(tree) : ~HasStmt(tree[i])
    /\ prev # <<>>

=============================================================================
